---- MODULE Spec2Model ----
(***************************************************************************)
(* The download-attempt supervisor of ytdpl.py: download_video_direct,      *)
(* download_audio_direct and download_subtitles_direct, with the credential *)
(* pool (get_next_chromium_profile), the manual-intervention gate           *)
(* (handle_manual_intervention / open_browser_for_login), the rate-limit    *)
(* pause and the SIGINT/SIGTERM handler.                                    *)
(*                                                                         *)
(* Text is modelled as sequences of word tokens: a line of the child's     *)
(* output is a sequence of tokens ending in "\n", str.lower() maps each    *)
(* token to its lower-case form, and `needle in haystack` is containment   *)
(* of a contiguous run of tokens.  A file name is the sequence of its      *)
(* dot-separated parts.                                                    *)
(*                                                                         *)
(* A state of the model is a point where the supervisor blocks: reading a  *)
(* line of the child's stream, sleeping in the cooldown, waiting for the   *)
(* child to exit, waiting for the title lookup, waiting for the operator.  *)
(* Each action is the code that runs from one such point to the next.      *)
(* subprocess.Popen of the interpreter itself is taken to succeed.         *)
(***************************************************************************)
EXTENDS Integers, Sequences, FiniteSets, TLC

\* ---------------------------------------------------------------- bounds
\* Lines the supervisor reads from one child before the stream ends.
MaxLines == 2
\* SIGINT/SIGTERM deliveries in one run.
MaxSignals == 1
\* Profiles setup_chromium_profiles found (the code scans chromium_data_1..5).
MaxPool == 2
\* Largest modification time of a file in the directories artifact
\* resolution is applied to.
MaxStamp == 2
\* Longest line, in words, of the lines the classification is applied to.
MaxTokens == 4
\* Calls of get_next_chromium_profile in a run of the pool on its own.
MaxDraws == 4

\* ------------------------------------------------------ program constants
max_retries == 10
\* proc.returncode: 0, or 1 standing for every non-zero status.
ReturnCodes == {0, 1}

\* ------------------------------------------------------------------ text
\* str.lower() on one token.
LowerTok(t) ==
    CASE t = "ERROR:" -> "error:"
      [] t = "WARNING:" -> "warning:"
      [] t = "Sign" -> "sign"
      [] t = "Captcha" -> "captcha"
      [] t = "Private" -> "private"
      [] t = "Forbidden" -> "forbidden"
      [] t = "Rate-Limited" -> "rate-limited"
      [] t = "YouTube" -> "youtube"
      [] t = "MP4" -> "mp4"
      [] t = "MP3" -> "mp3"
      [] OTHER -> t

\* str.lower() on a text.
Lower(s) == [i \in 1..Len(s) |-> LowerTok(s[i])]

\* needle in hay
Contains(hay, needle) ==
    \E i \in 1..(Len(hay) - Len(needle) + 1) :
        SubSeq(hay, i, i + Len(needle) - 1) = needle

RECURSIVE Join(_)
\* "".join(lines)
Join(lines) == IF lines = <<>> THEN <<>> ELSE Head(lines) \o Join(Tail(lines))

RateLimitPhrase == <<"rate-limited", "by", "youtube">>
ErrorMarker == <<"error:">>
\* The keyword list of the mid-stream kill switch.
StreamBlockPhrases ==
    { <<"sign", "in", "to", "confirm">>, <<"not", "a", "bot">>, <<"captcha">>,
      <<"verify", "you", "are", "human">>, <<"403", "forbidden">> }
\* A keyword list without the captcha phrase.
ExitBlockPhrasesNoCaptcha ==
    { <<"sign", "in", "to", "confirm">>, <<"not", "a", "bot">>,
      <<"verify", "you", "are", "human">>, <<"403", "forbidden">> }

\* The keyword list inspected after a failed attempt.
ExitBlockPhrases ==
    { <<"sign", "in", "to", "confirm">>, <<"not", "a", "bot">>, <<"captcha">>,
      <<"verify", "you", "are", "human">>, <<"403", "forbidden">> }
PrivacyPhrases ==
    { <<"sign", "in">>, <<"private">>, <<"age-restricted">>, <<"login">>,
      <<"members-only">> }

\* Lines the child (yt-dlp) may print.
LineProgress == <<"[download]", "50%", "\n">>
LineRate == <<"WARNING:", "Rate-Limited", "by", "YouTube", "\n">>
LineBot == <<"ERROR:", "Sign", "in", "to", "confirm", "\n">>
LineCaptcha == <<"ERROR:", "Captcha", "\n">>
LinePrivate == <<"ERROR:", "Private", "video", "\n">>
LineWarn403 == <<"WARNING:", "403", "Forbidden", "\n">>
LineRateBlock == <<"ERROR:", "rate-limited", "by", "youtube", "captcha", "\n">>
Lines ==
    { LineProgress, LineRate, LineBot, LineCaptcha, LinePrivate, LineWarn403,
      LineRateBlock }

\* "rate-limited by youtube" in line_lower
IsRateLimitedCased(line) == Contains(line, RateLimitPhrase)

IsRateLimited(line) == Contains(Lower(line), RateLimitPhrase)

\* "error:" in line_lower and any(k in line_lower for k in [...])
IsHardBlocked(line) ==
    /\ Contains(Lower(line), ErrorMarker)
    /\ \E k \in StreamBlockPhrases : Contains(Lower(line), k)

\* any(k in error_msg for k in ["sign in", "private", ...])
PrivacyText(error_msg) == \E k \in PrivacyPhrases : Contains(error_msg, k)

\* any(k in error_msg for k in ["sign in to confirm", "not a bot", ...])
HardBlockText(error_msg) == \E k \in ExitBlockPhrases : Contains(error_msg, k)

\* ----------------------------------------------------------------- files
Kinds == {"video", "audio", "subtitles"}
Platforms == {"YouTube", "TikTok", "Desconocida"}

VideoExts == {"mp4", "mkv", "webm", "flv", "mov"}
AudioExts == {"mp3"}

\* f.suffix.lower() in [...]
MatchesExt(name, exts) == Len(name) >= 2 /\ LowerTok(name[Len(name)]) \in exts

ExtFilter(kind) == IF kind = "video" THEN VideoExts ELSE AudioExts

\* language: process_single_file passes operations['subtitle_lang'] = "es".
language == "es"
\* video_title when the title lookup succeeds, and the video_<time> fallback.
TitleOk == "vid"
TitleFallback == "video_T"

\* glob f"{video_title}*.{language}.srt"
GlobTitleLang(name, title) ==
    /\ Len(name) >= 3
    /\ name[1] = title
    /\ name[Len(name) - 1] = language
    /\ name[Len(name)] = "srt"
\* glob f"{video_title}*.srt"
GlobTitle(name, title) ==
    Len(name) >= 2 /\ name[1] = title /\ name[Len(name)] = "srt"
\* glob f"*{language}*.srt"
GlobLang(name) ==
    /\ Len(name) >= 2
    /\ name[Len(name)] = "srt"
    /\ \E i \in 1..(Len(name) - 1) : name[i] = language

\* Files the child writes for the goal (output template, --no-overwrites).
Creatable(kind, title) ==
    CASE kind = "video" -> { <<"v1", "MP4">>, <<"v2", "mkv">> }
      [] kind = "audio" -> { <<"a1", "MP3">>, <<"a1", "jpg">> }
      [] OTHER -> { <<title, "es", "srt">>, <<title, "en", "srt">> }

\* Target directories the goal may start from: holding an unrelated older
\* file, holding the goal's own output of an earlier run, empty.
Baselines(kind) ==
    CASE kind = "video" ->
            { { <<"old", "mp4">> }, { <<"v1", "MP4">>, <<"v2", "mkv">> } }
      [] kind = "audio" ->
            { { <<"old", "mp3">> }, { <<"a1", "MP3">>, <<"a1", "jpg">> } }
      [] OTHER ->
            { {}, { <<"other", "es", "srt">> }, { <<TitleOk, "es", "srt">> } }

\* A directory is a set of entries [name, mtime].
Names(d) == { f.name : f \in d }
Mtime(d, n) == (CHOOSE f \in d : f.name = n).mtime
MaxMtime(d) == IF d = {} THEN 0 ELSE CHOOSE t \in { f.mtime : f \in d } :
                                        \A f \in d : f.mtime <= t

\* Pre-existing files all carry mtime 0.
AsDir(names) == { [name |-> n, mtime |-> 0] : n \in names }

\* The suffix filter without the set difference against the snapshot.
NewMatchingAll(d, existing, exts) ==
    { n \in Names(d) : MatchesExt(n, exts) }

\* list(current_files - existing_files), filtered by suffix
NewMatching(d, existing, exts) ==
    { n \in Names(d) \ existing : MatchesExt(n, exts) }

\* files.sort(key=lambda f: f.stat().st_mtime): the orders a stable sort of
\* an arbitrarily enumerated set can give.
SortedByMtime(S, d) ==
    { s \in [1..Cardinality(S) -> S] :
        /\ \A i, j \in 1..Cardinality(S) : i # j => s[i] # s[j]
        /\ \A i, j \in 1..Cardinality(S) :
              i < j => Mtime(d, s[i]) <= Mtime(d, s[j]) }

\* The orders in which set(...) may enumerate the files S.
Listings(S) ==
    { s \in [1..Cardinality(S) -> S] :
        \A i, j \in 1..Cardinality(S) : i # j => s[i] # s[j] }

\* [f for f in new_files if f.suffix.lower() in exts]
FilterExt(listing, exts) == SelectSeq(listing, LAMBDA n : MatchesExt(n, exts))

\* The list left unsorted.
SortByMtimeNone(listing, d) == listing

RECURSIVE SortByMtime(_, _)
\* files.sort(key=lambda f: f.stat().st_mtime): the stable sort, as the
\* insertion of the last element behind every element not newer than it.
SortByMtime(listing, d) ==
    IF listing = <<>> THEN <<>>
    ELSE LET n == listing[Len(listing)]
             front == SortByMtime(SubSeq(listing, 1, Len(listing) - 1), d)
             older == SelectSeq(front, LAMBDA o : Mtime(d, o) <= Mtime(d, n))
             newer == SelectSeq(front, LAMBDA o : Mtime(d, o) > Mtime(d, n))
         IN  older \o <<n>> \o newer

\* new_files = list(current_files - existing_files) in the enumeration order
\* `listing`, filtered by suffix and sorted: the list the function returns.
ResolveArtifacts(listing, exts, d) == SortByMtime(FilterExt(listing, exts), d)

\* max(subtitle_files, key=lambda f: f.stat().st_mtime)
Latest(S, d) == { n \in S : \A o \in S : Mtime(d, o) <= Mtime(d, n) }

\* existing_subs = list(glob(title*.lang.srt)) or list(glob(title*.srt))
ExistingSubs(d, title) ==
    LET first == { n \in Names(d) : GlobTitleLang(n, title) }
        second == { n \in Names(d) : GlobTitle(n, title) }
    IN  IF first # {} THEN first ELSE second

\* The first of the three subtitle patterns that matches anything.
SubtitleFiles(d, title) ==
    LET first == { n \in Names(d) : GlobTitleLang(n, title) }
        second == { n \in Names(d) : GlobTitle(n, title) }
        third == { n \in Names(d) : GlobLang(n) }
    IN  IF first # {} THEN first ELSE IF second # {} THEN second ELSE third

\* ------------------------------------------------------- credential pool
ProfileName(i) ==
    CASE i = 1 -> "chromium_data_1"
      [] i = 2 -> "chromium_data_2"
      [] i = 3 -> "chromium_data_3"
      [] i = 4 -> "chromium_data_4"
      [] OTHER -> "chromium_data_5"

\* get_next_chromium_profile: the profile returned.
NextProfile(pool, idx) ==
    IF pool = <<>> THEN ProfileName(1) ELSE pool[idx + 1]

\* The cursor left where it is.
NextIndexStuck(pool, idx) == idx

\* get_next_chromium_profile: CURRENT_PROFILE_INDEX afterwards.
NextIndex(pool, idx) ==
    IF pool = <<>> THEN idx ELSE (idx + 1) % Len(pool)

\* Cookies on every attempt above index 0, whatever the platform.
UseCookiesAboveZero(plat, att) == plat = "TikTok" \/ att > 0

\* Cookies on every attempt.
UseCookiesAlways(plat, att) == TRUE

\* platform == "TikTok" or (platform == "YouTube" and attempt > 0)
UseCookies(plat, att) == plat = "TikTok" \/ (plat = "YouTube" /\ att > 0)

\* The arguments added to base_command for one attempt.
Command(plat, use, prof) ==
    [ cookies |-> IF use THEN prof ELSE "none",
      player_client |-> IF plat # "YouTube" THEN "default"
                        ELSE IF use THEN "tv_downgraded,web" ELSE "android,tv" ]

\* proc.returncode before the child has been waited for.
RcNone == -1

\* ---------------------------------------------------------- cookie stores
\* The directories setup_chromium_profiles scans: chromium_data_1..5.
ProfileDirs == { ProfileName(i) : i \in 1..5 }

\* A profile's <profile>/Default or <profile>/chromium/Default directory,
\* seen through its Cookies file: the directory is absent, holds no Cookies
\* file ("bare"), holds one of zero size ("empty"), one sqlite cannot read
\* ("corrupt"), or a database ("db") whose cookies table holds rows with the
\* given host_key values.
Store(st, hs) == [state |-> st, hosts |-> hs]
Absent == Store("absent", {})
Bare == Store("bare", {})

\* host_key values, cut where the queried domains begin and end:
\* ".youtube.com", "www.tiktok.com", "notyoutube.com", "example.org".
HostYouTube == <<".", "youtube.com">>
HostTikTok == <<"www", ".", "tiktok.com">>
HostLookalike == <<"not", "youtube.com">>
HostOther == <<"example.org">>
Hosts == { HostYouTube, HostTikTok, HostLookalike, HostOther }

\* The domain of the LIKE pattern analyze_profile_cookies queries for a
\* platform; platforms.get(platform, {}) has no entry for any other platform.
PlatformDomain(plat) ==
    IF plat = "YouTube" THEN <<"youtube.com">> ELSE <<"tiktok.com">>

\* cookies_db.exists()
CookiesExists(store) == store.state \in {"empty", "corrupt", "db"}

\* SELECT ... WHERE host_key LIKE '%<domain>%' LIMIT 1 returns a row.
HasRow(store, plat) ==
    \E h \in store.hosts : Contains(h, PlatformDomain(plat))

\* The inspection of <profile>/chromium/Default/Cookies alone.
AnalyzeToolStoreOnly(tool, interactive, plat) ==
    /\ plat \in {"YouTube", "TikTok"}
    /\ tool.state = "db"
    /\ HasRow(tool, plat)

\* analyze_profile_cookies(profile)[platform]['has_cookies'], from the
\* profile's chromium/Default (tool) and Default (interactive) directories:
\* the tool's Cookies file unless it is missing or of zero size, else the
\* interactive one; a file sqlite cannot query raises inside the try and the
\* result stays False.
AnalyzeProfileCookies(tool, interactive, plat) ==
    LET cookies_db ==
            IF ~CookiesExists(tool) \/ tool.state = "empty" THEN interactive
            ELSE tool
    IN  /\ plat \in {"YouTube", "TikTok"}
        /\ cookies_db.state = "db"
        /\ HasRow(cookies_db, plat)

\* The cookies the operator's browser session leaves for the platform.
SessionHosts(plat) ==
    CASE plat = "YouTube" -> { HostYouTube }
      [] plat = "TikTok" -> { HostTikTok }
      [] OTHER -> { HostOther }

\* <profile>/Default after chromium ran on the profile for the url.
BrowserWrites(store, plat) ==
    Store("db", (IF store.state = "db" THEN store.hosts ELSE {})
                    \cup SessionHosts(plat))

\* What the environment makes fail: nothing, the start of chromium-browser,
\* shutil.rmtree, shutil.copytree.
Faults == {"none", "browser", "rmtree", "copytree"}

\* The values <profile>/chromium/Default can have after the synchronization
\* of open_browser_for_login ran on source and target under fault f: rmtree
\* of an existing target, then copytree of an existing source; an exception
\* leaves what was done so far and is caught.
SyncResults(source, target, f) ==
    IF target.state # "absent" /\ f = "rmtree" THEN { target, Bare }
    ELSE IF source.state = "absent" THEN { Absent }
    ELSE IF f = "copytree" THEN { Absent, Bare }
    ELSE { source }

\* ------------------------------------------------------------- decisions
\* The success test on the exit status alone.
SuccessExitIgnoringBlock(rc, killed) == rc = 0

\* proc.returncode == 0 and not killed_by_block
SuccessExit(rc, killed) == rc = 0 /\ ~killed

\* The failure branch opening the browser whether or not attempts remain.
FailureDecisionNoLastCheck(plat, att, error_msg) ==
    IF att = 0 /\ plat = "YouTube" /\ PrivacyText(error_msg) THEN "continue"
    ELSE IF HardBlockText(error_msg) THEN "intervene"
    ELSE "break"

\* The failure branch with its two text checks in the other order.
FailureDecisionBlockFirst(plat, att, error_msg) ==
    IF HardBlockText(error_msg) /\ att < max_retries THEN "intervene"
    ELSE IF att = 0 /\ plat = "YouTube" /\ PrivacyText(error_msg) THEN "continue"
    ELSE "break"

\* A failure branch that goes on to the next attempt instead of breaking.
FailureDecisionNoBreak(plat, att, error_msg) ==
    IF att = 0 /\ plat = "YouTube" /\ PrivacyText(error_msg) THEN "continue"
    ELSE IF HardBlockText(error_msg) /\ att < max_retries THEN "intervene"
    ELSE IF att < max_retries THEN "continue"
    ELSE "break"

\* What the failure branch does with the captured text.
FailureDecision(plat, att, error_msg) ==
    IF att = 0 /\ plat = "YouTube" /\ PrivacyText(error_msg) THEN "continue"
    ELSE IF HardBlockText(error_msg) /\ att < max_retries THEN "intervene"
    ELSE "break"

\* The value a goal returns when it has nothing: [] or None.
EmptyResult(k) ==
    IF k = "subtitles" THEN [tag |-> "None", val |-> <<>>]
    ELSE [tag |-> "list", val |-> <<>>]

\* ----------------------------------------------------------------- state
VARIABLES
    pc,                     \* where the supervisor is blocked
    kind, platform,         \* the goal: which download function, detect_platform(url)
    CHROMIUM_PROFILES, CURRENT_PROFILE_INDEX, INTERRUPTED,
    nsig,                   \* signals delivered so far
    dir,                    \* the goal's target directory
    baseline,               \* the names in dir when the goal started
    existing_files, video_title, attempt, command,
    proc,                   \* the child: "none", "running", "exited"
    termRequested,          \* proc.terminate() was called on the current child
    output_lines, killed_by_block, returncode,
    ret,                    \* the value the goal returned
    final,                  \* "none", "Succeeded", "Failed"
    gateProfile,            \* the profile the open browser session is bound to
    gateCount,              \* handle_manual_intervention calls of the goal
    launches,               \* child downloaders started by the goal
    allBlocked,             \* every attempt evaluated so far was killed_by_block
    credRetry,              \* the attempt-0 privacy/login continue was taken
    drawn,                  \* the profiles get_next_chromium_profile returned
                            \* since setup_chromium_profiles
    source_default,         \* <profile>/Default of each profile directory
    target_default,         \* <profile>/chromium/Default of each profile directory
    fault                   \* what the environment makes fail

vars ==
    << pc, kind, platform, CHROMIUM_PROFILES, CURRENT_PROFILE_INDEX, INTERRUPTED,
       nsig, dir, baseline, existing_files, video_title, attempt, command, proc,
       termRequested, output_lines, killed_by_block, returncode, ret, final,
       gateProfile, gateCount, launches, allBlocked, credRetry, drawn,
       source_default, target_default, fault >>

goalVars == << kind, platform, CHROMIUM_PROFILES, baseline, fault >>
storeVars == << source_default, target_default >>
sigVars == << INTERRUPTED, nsig >>
childVars == << proc, termRequested >>
\* The locals of the download function; returncode is the status of the child
\* it reaped last.
localVars ==
    << existing_files, video_title, attempt, command, output_lines,
       killed_by_block, returncode >>
ghostVars == << gateCount, launches, allBlocked, credRetry, drawn >>

\* The profiles setup_chromium_profiles accepts, in the order of its scan.
FoundProfiles(target) ==
    SelectSeq([i \in 1..5 |-> ProfileName(i)],
              LAMBDA p : target[p].state \in {"corrupt", "db"})

\* The scan alone.
SetupPoolNoFallback(pool, target) == pool \o FoundProfiles(target)

\* setup_chromium_profiles: CHROMIUM_PROFILES afterwards. A Cookies file
\* that exists with a size above zero implies that profile_dir exists.
SetupPool(pool, target) ==
    IF pool \o FoundProfiles(target) # <<>>
    THEN pool \o FoundProfiles(target)
    ELSE <<ProfileName(1)>>

\* The stores of a run in which every profile of the pool holds the cookies
\* of an earlier session in both directories and no other profile exists.
ProfileStores(pool) ==
    [ p \in ProfileDirs |->
        IF \E i \in 1..Len(pool) : pool[i] = p
        THEN Store("db", { HostYouTube, HostTikTok })
        ELSE Absent ]

Init ==
    /\ pc = "idle"
    /\ kind \in Kinds
    /\ platform \in Platforms
    /\ CHROMIUM_PROFILES = [i \in 1..MaxPool |-> ProfileName(i)]
    /\ CURRENT_PROFILE_INDEX = 0
    /\ INTERRUPTED = FALSE
    /\ nsig = 0
    /\ \E b \in Baselines(kind) : dir = AsDir(b) /\ baseline = b
    /\ existing_files = {}
    /\ video_title = ""
    /\ attempt = 0
    /\ command = Command(platform, FALSE, "none")
    /\ proc = "none"
    /\ termRequested = FALSE
    /\ output_lines = <<>>
    /\ killed_by_block = FALSE
    /\ returncode = RcNone
    /\ ret = [tag |-> "unset", val |-> <<>>]
    /\ final = "none"
    /\ gateProfile = "none"
    /\ gateCount = 0
    /\ launches = 0
    /\ allBlocked = TRUE
    /\ credRetry = FALSE
    /\ drawn = <<>>
    /\ source_default = ProfileStores(CHROMIUM_PROFILES)
    /\ target_default = ProfileStores(CHROMIUM_PROFILES)
    /\ fault = "none"

\* The locals of a download function that is not running.
NoLocals ==
    /\ existing_files' = {}
    /\ video_title' = ""
    /\ attempt' = 0
    /\ command' = Command(platform, FALSE, "none")
    /\ output_lines' = <<>>
    /\ killed_by_block' = FALSE

\* return r: the function's locals are gone, the caller holds r.
Return(r, f) ==
    /\ ret' = r
    /\ final' = f
    /\ pc' = "done"
    /\ NoLocals

\* An iteration that does not move on to index a.
LaunchSameIndex(a) ==
    LET use == UseCookies(platform, attempt)
        prof == NextProfile(CHROMIUM_PROFILES, CURRENT_PROFILE_INDEX)
    IN  /\ attempt' = attempt
        /\ command' = Command(platform, use, prof)
        /\ CURRENT_PROFILE_INDEX' =
              IF use THEN NextIndex(CHROMIUM_PROFILES, CURRENT_PROFILE_INDEX)
              ELSE CURRENT_PROFILE_INDEX
        /\ proc' = "running"
        /\ termRequested' = FALSE
        /\ output_lines' = <<>>
        /\ killed_by_block' = FALSE
        /\ returncode' = RcNone
        /\ launches' = launches + 1
        /\ drawn' = IF use THEN Append(drawn, prof) ELSE drawn
        /\ pc' = "stream"

\* An iteration that takes a profile from the pool whether or not the
\* command carries cookies.
LaunchDrawsAlways(a) ==
    LET use == UseCookies(platform, a)
        prof == NextProfile(CHROMIUM_PROFILES, CURRENT_PROFILE_INDEX)
    IN  /\ attempt' = a
        /\ command' = Command(platform, use, prof)
        /\ CURRENT_PROFILE_INDEX' = NextIndex(CHROMIUM_PROFILES, CURRENT_PROFILE_INDEX)
        /\ proc' = "running"
        /\ termRequested' = FALSE
        /\ output_lines' = <<>>
        /\ killed_by_block' = FALSE
        /\ returncode' = RcNone
        /\ launches' = launches + 1
        /\ drawn' = IF use THEN Append(drawn, prof) ELSE drawn
        /\ pc' = "stream"

\* An iteration that keeps what the previous one captured.
LaunchKeepsCapture(a) ==
    LET use == UseCookies(platform, a)
        prof == NextProfile(CHROMIUM_PROFILES, CURRENT_PROFILE_INDEX)
    IN  /\ attempt' = a
        /\ command' = Command(platform, use, prof)
        /\ CURRENT_PROFILE_INDEX' =
              IF use THEN NextIndex(CHROMIUM_PROFILES, CURRENT_PROFILE_INDEX)
              ELSE CURRENT_PROFILE_INDEX
        /\ proc' = "running"
        /\ termRequested' = FALSE
        /\ output_lines' = output_lines
        /\ killed_by_block' = killed_by_block
        /\ returncode' = RcNone
        /\ launches' = launches + 1
        /\ drawn' = IF use THEN Append(drawn, prof) ELSE drawn
        /\ pc' = "stream"

\* Iteration a of `for attempt in range(max_retries + 1)` up to the first
\* read of the child's stream: choose the credentials, build the command,
\* Popen, reset output_lines and killed_by_block.
Launch(a) ==
    LET use == UseCookies(platform, a)
        prof == NextProfile(CHROMIUM_PROFILES, CURRENT_PROFILE_INDEX)
    IN  /\ attempt' = a
        /\ command' = Command(platform, use, prof)
        /\ CURRENT_PROFILE_INDEX' =
              IF use THEN NextIndex(CHROMIUM_PROFILES, CURRENT_PROFILE_INDEX)
              ELSE CURRENT_PROFILE_INDEX
        /\ proc' = "running"
        /\ termRequested' = FALSE
        /\ output_lines' = <<>>
        /\ killed_by_block' = FALSE
        /\ returncode' = RcNone
        /\ launches' = launches + 1
        /\ drawn' = IF use THEN Append(drawn, prof) ELSE drawn
        /\ pc' = "stream"

\* The top of the retry loop with index a: the next attempt, or past the
\* last index the end of the loop and the function's empty return value.
LoopTop(a) ==
    IF a <= max_retries
    THEN Launch(a) /\ UNCHANGED << ret, final, existing_files, video_title >>
    ELSE /\ Return(EmptyResult(kind), "Failed")
         /\ proc' = "exited"
         /\ UNCHANGED << CURRENT_PROFILE_INDEX, termRequested, returncode,
                         launches, drawn >>

\* download_video_direct / download_audio_direct up to the first read of the
\* first attempt: the snapshot of the directory, then the retry loop.
BeginDownload ==
    /\ pc = "idle"
    /\ kind # "subtitles"
    /\ existing_files' = Names(dir)
    /\ Launch(0)
    /\ UNCHANGED << goalVars, sigVars, storeVars, dir, video_title, ret, final,
                    gateProfile, gateCount, allBlocked, credRetry >>

\* download_subtitles_direct up to the title lookup (subprocess.run).
BeginSubtitles ==
    /\ pc = "idle"
    /\ kind = "subtitles"
    /\ pc' = "title"
    /\ UNCHANGED << goalVars, sigVars, storeVars, CURRENT_PROFILE_INDEX, dir,
                    localVars, childVars, ret, final, gateProfile, ghostVars >>

\* The title lookups (subprocess.run of yt-dlp --print) the goal has started:
\* one, as soon as a subtitles goal has begun.
TitleLookups == IF kind = "subtitles" /\ pc \notin {"idle", "exited"} THEN 1 ELSE 0

\* From the end of the title lookup to the first read of the first attempt,
\* or to the early return of an existing subtitle file.
AfterTitle(title) ==
    /\ IF ExistingSubs(dir, title) # {}
       THEN /\ \E f \in ExistingSubs(dir, title) :
                  Return([tag |-> "str", val |-> <<f>>], "Succeeded")
            /\ UNCHANGED << CURRENT_PROFILE_INDEX, childVars, returncode,
                            launches, drawn >>
       ELSE /\ video_title' = title
            /\ Launch(0)
            /\ UNCHANGED << ret, final, existing_files >>
    /\ UNCHANGED << goalVars, storeVars, dir, gateProfile, gateCount, allBlocked,
                    credRetry >>

\* The title lookup returns: the title, or (non-zero status, timeout) the
\* video_<time> fallback.
TitleReturns ==
    /\ pc = "title"
    /\ \E t \in {TitleOk, TitleFallback} : AfterTitle(t)
    /\ UNCHANGED sigVars

\* The hard-block check without its break: the loop reads on.
BlockCheckNoBreak(line) ==
    /\ pc' = "stream"
    /\ IF IsHardBlocked(line)
       THEN termRequested' = TRUE /\ killed_by_block' = TRUE
       ELSE UNCHANGED << termRequested, killed_by_block >>

\* The hard-block check of the streaming loop on the line just appended:
\* proc.terminate(), killed_by_block = True, break; otherwise the next read.
BlockCheck(line) ==
    IF IsHardBlocked(line)
    THEN /\ termRequested' = TRUE
         /\ killed_by_block' = TRUE
         /\ pc' = "wait"
    ELSE /\ pc' = "stream"
         /\ UNCHANGED << termRequested, killed_by_block >>

\* One iteration of `for line in proc.stdout`: echo and capture the line,
\* enter the cooldown on a rate-limit line, else go on to the block check.
ReadLineFrom(L) ==
    /\ pc = "stream"
    /\ \E line \in L :
          /\ output_lines' = Append(output_lines, line)
          /\ IF IsRateLimited(line)
             THEN pc' = "cooling" /\ UNCHANGED << termRequested, killed_by_block >>
             ELSE BlockCheck(line)
    /\ UNCHANGED << goalVars, sigVars, storeVars, CURRENT_PROFILE_INDEX, dir,
                    existing_files, video_title, attempt, command, proc,
                    returncode, ret, final, gateProfile, ghostVars >>

\* A read of one of the lines of the child, at most MaxLines per attempt.
ReadLine == Len(output_lines) < MaxLines /\ ReadLineFrom(Lines)

\* A cooldown that ends with the child terminated as blocked.
CooldownEndsKills ==
    /\ pc = "cooling"
    /\ termRequested' = TRUE
    /\ killed_by_block' = TRUE
    /\ pc' = "wait"
    /\ UNCHANGED << goalVars, sigVars, storeVars, CURRENT_PROFILE_INDEX, dir,
                    existing_files, video_title, attempt, command, proc,
                    output_lines, returncode, ret, final, gateProfile, ghostVars >>

\* A cooldown that never elapses.
CooldownStays == pc = "cooling" /\ UNCHANGED vars

\* handle_rate_limit_pause returns after its 1800 one-second sleeps; the
\* iteration goes on with the block check of the same line.
CooldownEnds ==
    /\ pc = "cooling"
    /\ BlockCheck(output_lines[Len(output_lines)])
    /\ UNCHANGED << goalVars, sigVars, storeVars, CURRENT_PROFILE_INDEX, dir,
                    existing_files, video_title, attempt, command, proc,
                    output_lines, returncode, ret, final, gateProfile, ghostVars >>

\* The child closes its stdout: the for loop ends and proc.wait() is entered.
StreamEnds ==
    /\ pc = "stream"
    /\ pc' = "wait"
    /\ UNCHANGED << goalVars, sigVars, storeVars, CURRENT_PROFILE_INDEX, dir,
                    localVars, childVars, ret, final, gateProfile, ghostVars >>

\* An exception is raised inside the streaming loop (the read of a line
\* cannot be decoded, the echo to a closed stdout fails): `except Exception`
\* reports it and breaks, and the function returns its empty value.  The
\* child is neither waited for nor asked to terminate.
StreamRaises ==
    /\ pc = "stream"
    /\ Return(EmptyResult(kind), "Failed")
    /\ allBlocked' = FALSE
    /\ UNCHANGED << goalVars, sigVars, storeVars, CURRENT_PROFILE_INDEX, dir,
                    childVars, returncode, gateProfile, gateCount, launches,
                    credRetry, drawn >>

\* The status taken without the child having exited.
ReapedAlive(rc) ==
    /\ proc' = proc
    /\ returncode' = rc
    /\ UNCHANGED << termRequested, launches >>

\* The child just waited for has exited with status rc.
Reaped(rc) ==
    /\ proc' = "exited"
    /\ returncode' = rc
    /\ UNCHANGED << termRequested, launches >>

\* The failure branch: continue with credentials, open the browser for the
\* operator (handle_manual_intervention up to input()), or break.
FailurePath(rc) ==
    LET error_msg == Lower(Join(output_lines))
        decision == FailureDecision(platform, attempt, error_msg)
        profile_dir == NextProfile(CHROMIUM_PROFILES, CURRENT_PROFILE_INDEX)
    IN  CASE decision = "continue" ->
                /\ LoopTop(attempt + 1)
                /\ credRetry' = TRUE
                /\ UNCHANGED << gateProfile, gateCount, storeVars >>
          [] decision = "intervene" ->
                /\ Reaped(rc)
                /\ UNCHANGED << existing_files, video_title, attempt, command,
                                output_lines, killed_by_block >>
                /\ gateProfile' = profile_dir
                /\ drawn' = Append(drawn, profile_dir)
                /\ CURRENT_PROFILE_INDEX' =
                      NextIndex(CHROMIUM_PROFILES, CURRENT_PROFILE_INDEX)
                /\ source_default' =
                      IF fault = "browser" THEN source_default
                      ELSE [source_default EXCEPT
                               ![profile_dir] = BrowserWrites(@, platform)]
                /\ gateCount' = gateCount + 1
                /\ pc' = "gate"
                /\ UNCHANGED << ret, final, credRetry, target_default >>
          [] OTHER ->
                /\ Reaped(rc)
                /\ Return(EmptyResult(kind), "Failed")
                /\ UNCHANGED << CURRENT_PROFILE_INDEX, gateProfile, gateCount,
                                credRetry, drawn, storeVars >>

\* After proc.wait() in download_video_direct / download_audio_direct.
EvaluateDownload(rc, d) ==
    IF SuccessExit(rc, killed_by_block)
    THEN /\ Reaped(rc)
         /\ \E lst \in SortedByMtime(
                   NewMatching(d, existing_files, ExtFilter(kind)), d) :
               Return([tag |-> "list", val |-> lst], "Succeeded")
         /\ UNCHANGED << CURRENT_PROFILE_INDEX, gateProfile, gateCount, credRetry,
                         drawn, storeVars >>
    ELSE FailurePath(rc)

\* After proc.wait() in download_subtitles_direct.
EvaluateSubtitles(rc, d) ==
    IF SuccessExit(rc, killed_by_block) /\ SubtitleFiles(d, video_title) # {}
    THEN /\ Reaped(rc)
         /\ \E f \in Latest(SubtitleFiles(d, video_title), d) :
               Return([tag |-> "str", val |-> <<f>>], "Succeeded")
         /\ UNCHANGED << CURRENT_PROFILE_INDEX, gateProfile, gateCount, credRetry,
                         drawn, storeVars >>
    ELSE FailurePath(rc)

\* The directory after the child wrote `created`, stamped after every file
\* already there.
Written(d, created) ==
    d \cup { [name |-> n, mtime |-> MaxMtime(d) + 1] : n \in created }

\* proc.wait() returns: the child has exited with some status, having written
\* nothing or those of the goal's files that did not exist yet; the attempt
\* is evaluated and the supervisor runs on to where it blocks next.
WaitReturns ==
    /\ pc = "wait"
    /\ \E rc \in ReturnCodes :
       \E created \in { {}, Creatable(kind, video_title) \ Names(dir) } :
          /\ dir' = Written(dir, created)
          /\ IF kind = "subtitles"
             THEN EvaluateSubtitles(rc, Written(dir, created))
             ELSE EvaluateDownload(rc, Written(dir, created))
    /\ allBlocked' = (allBlocked /\ killed_by_block)
    /\ UNCHANGED << goalVars, sigVars >>

\* A gate whose failed synchronization ends the goal.
GateConfirmFatal ==
    /\ pc = "gate"
    /\ IF fault \in {"rmtree", "copytree"}
       THEN /\ Return(EmptyResult(kind), "Failed")
            /\ UNCHANGED << CURRENT_PROFILE_INDEX, childVars, returncode,
                            launches, drawn, target_default >>
       ELSE /\ \E synced \in SyncResults(source_default[gateProfile],
                                         target_default[gateProfile], fault) :
                  target_default' = [target_default EXCEPT ![gateProfile] = synced]
            /\ LoopTop(attempt + 1)
    /\ UNCHANGED << goalVars, sigVars, source_default, dir, gateProfile, gateCount,
                    allBlocked, credRetry >>

\* The operator presses ENTER: open_browser_for_login synchronizes the
\* profile's cookies and returns, and the retry loop continues.
GateConfirm ==
    /\ pc = "gate"
    /\ \E synced \in SyncResults(source_default[gateProfile],
                                 target_default[gateProfile], fault) :
          target_default' = [target_default EXCEPT ![gateProfile] = synced]
    /\ LoopTop(attempt + 1)
    /\ UNCHANGED << goalVars, sigVars, source_default, dir, gateProfile, gateCount,
                    allBlocked, credRetry >>

\* signal_handler: INTERRUPTED = True, cleanup_temp_files(), sys.exit(0).
\* SystemExit unwinds the main thread; the bare `except:` around the title
\* lookup catches it, every other handler on the way (except Exception,
\* except KeyboardInterrupt) lets it through and the interpreter exits: its
\* variables are gone, the directory and the child remain as they were.
Signal ==
    /\ nsig < MaxSignals
    /\ pc # "exited"
    /\ nsig' = nsig + 1
    /\ INTERRUPTED' = TRUE
    /\ IF pc = "title"
       THEN AfterTitle(TitleFallback)
       ELSE /\ pc' = "exited"
            /\ CURRENT_PROFILE_INDEX' = 0
            /\ NoLocals
            /\ returncode' = RcNone
            /\ UNCHANGED << goalVars, storeVars, dir, proc, termRequested, ret,
                            final, gateProfile, ghostVars >>

Next ==
    \/ BeginDownload
    \/ BeginSubtitles
    \/ TitleReturns
    \/ ReadLine
    \/ CooldownEnds
    \/ StreamEnds
    \/ StreamRaises
    \/ WaitReturns
    \/ GateConfirm
    \/ Signal

Spec == Init /\ [][Next]_vars

\* A run without an interrupt in which the goal is started, the title lookup
\* returns (it has a timeout of 30 seconds), every child closes its output
\* and exits, every cooldown elapses and the operator confirms every gate.
NextLive ==
    \/ BeginDownload
    \/ BeginSubtitles
    \/ TitleReturns
    \/ ReadLine
    \/ CooldownEnds
    \/ StreamEnds
    \/ StreamRaises
    \/ WaitReturns
    \/ GateConfirm

\* Whatever the supervisor is blocked on eventually happens: the child
\* prints a line or closes its output, wait() returns, the cooldown is over,
\* the operator presses ENTER.
Fairness == WF_vars(NextLive)

\* The goals of the runs checked for termination: an audio goal and a
\* subtitles goal on YouTube, each in a directory without output of its own.
InitLive ==
    /\ Init
    /\ platform = "YouTube"
    /\ kind \in {"audio", "subtitles"}
    /\ baseline \in { { <<"old", "mp3">> }, {} }

SpecLive == InitLive /\ [][NextLive]_vars /\ Fairness

\* A download function is called again in the same process once the
\* previous call has returned: its locals start afresh, the directory is as
\* the earlier goals left it, and the module globals CHROMIUM_PROFILES and
\* CURRENT_PROFILE_INDEX are what they were; no function but
\* get_next_chromium_profile assigns the cursor.
NextGoal ==
    /\ pc = "done"
    /\ Len(drawn) < MaxDraws
    /\ pc' = "idle"
    /\ platform' \in Platforms
    /\ baseline' = Names(dir)
    /\ proc' = "none"
    /\ termRequested' = FALSE
    /\ returncode' = RcNone
    /\ ret' = [tag |-> "unset", val |-> <<>>]
    /\ final' = "none"
    /\ gateProfile' = "none"
    /\ gateCount' = 0
    /\ launches' = 0
    /\ allBlocked' = TRUE
    /\ credRetry' = FALSE
    /\ UNCHANGED << kind, CHROMIUM_PROFILES, CURRENT_PROFILE_INDEX, fault, sigVars,
                    storeVars, dir, existing_files, video_title, attempt, command,
                    output_lines, killed_by_block, drawn >>

\* A run of several video goals, one after the other.
InitRun ==
    /\ Init
    /\ kind = "video"
    /\ baseline = { <<"old", "mp4">> }

NextRun ==
    \/ BeginDownload
    \/ ReadLine
    \/ CooldownEnds
    \/ StreamEnds
    \/ StreamRaises
    \/ WaitReturns
    \/ GateConfirm
    \/ NextGoal

SpecRun == InitRun /\ [][NextRun]_vars

\* ------------------------------------------------- the parts on their own
\* No download function is running and none has run.
NoAttempt ==
    /\ existing_files = {}
    /\ video_title = ""
    /\ attempt = 0
    /\ command = Command(platform, FALSE, "none")
    /\ proc = "none"
    /\ termRequested = FALSE
    /\ output_lines = <<>>
    /\ killed_by_block = FALSE
    /\ returncode = RcNone
    /\ ret = [tag |-> "unset", val |-> <<>>]
    /\ final = "none"

NoHistory ==
    /\ INTERRUPTED = FALSE
    /\ nsig = 0
    /\ gateProfile = "none"
    /\ gateCount = 0
    /\ launches = 0
    /\ allBlocked = TRUE
    /\ credRetry = FALSE
    /\ drawn = <<>>

\* Artifact resolution of download_video_direct / download_audio_direct on
\* its own: any snapshot, any directory content with modification times up
\* to MaxStamp, any enumeration order of the set difference.
ResolveNames ==
    { <<"a", "txt">>, <<"b", "mp3">>, <<"c", "MP3">>, <<"d", "MP4">> }

ResolveDirs ==
    UNION { { { [name |-> n, mtime |-> t[n]] : n \in S } : t \in [S -> 1..MaxStamp] }
            : S \in SUBSET ResolveNames }

InitResolve ==
    /\ pc = "resolve"
    /\ kind \in {"video", "audio"}
    /\ platform = "YouTube"
    /\ CHROMIUM_PROFILES = [i \in 1..MaxPool |-> ProfileName(i)]
    /\ CURRENT_PROFILE_INDEX = 0
    /\ dir \in ResolveDirs
    /\ baseline \in SUBSET ResolveNames
    /\ NoAttempt
    /\ NoHistory
    /\ source_default = ProfileStores(CHROMIUM_PROFILES)
    /\ target_default = ProfileStores(CHROMIUM_PROFILES)
    /\ fault = "none"

\* The zero-exit branch from current_files to the return, with the snapshot
\* `baseline` as existing_files.
Resolve ==
    /\ pc = "resolve"
    /\ \E listing \in Listings(Names(dir) \ baseline) :
          ret' = [tag |-> "list",
                  val |-> ResolveArtifacts(listing, ExtFilter(kind), dir)]
    /\ final' = "Succeeded"
    /\ pc' = "done"
    /\ UNCHANGED << goalVars, sigVars, storeVars, CURRENT_PROFILE_INDEX, dir,
                    localVars, childVars, gateProfile, ghostVars >>

NextResolve == Resolve

SpecResolve == InitResolve /\ [][NextResolve]_vars

\* The profile pool on its own, from the import of the module: any content
\* of the first MaxPool + 1 profile directories, the setup of the pool, and
\* up to MaxDraws calls of get_next_chromium_profile.
PoolStores ==
    { t \in [ProfileDirs -> { Absent, Store("empty", {}),
                              Store("db", { HostYouTube }) }] :
        \A i \in 1..5 : i > MaxPool + 1 => t[ProfileName(i)] = Absent }

InitPool ==
    /\ pc = "import"
    /\ kind = "video"
    /\ platform = "TikTok"
    /\ CHROMIUM_PROFILES = <<>>
    /\ CURRENT_PROFILE_INDEX = 0
    /\ dir = {}
    /\ baseline = {}
    /\ NoAttempt
    /\ NoHistory
    /\ target_default \in PoolStores
    /\ source_default = target_default
    /\ fault = "none"

\* main: setup_chromium_profiles().
SetupProfiles ==
    /\ pc = "import"
    /\ CHROMIUM_PROFILES' = SetupPool(CHROMIUM_PROFILES, target_default)
    /\ drawn' = <<>>
    /\ pc' = "idle"
    /\ UNCHANGED << kind, platform, baseline, fault, sigVars, storeVars,
                    CURRENT_PROFILE_INDEX, dir, localVars, childVars, ret, final,
                    gateProfile, gateCount, launches, allBlocked, credRetry >>

\* One call of get_next_chromium_profile, by whichever caller; on the empty
\* pool it creates chromium_data_1/Default if it is not there.
GetNext ==
    /\ pc \in {"import", "idle"}
    /\ Len(drawn) < MaxDraws
    /\ LET profile == NextProfile(CHROMIUM_PROFILES, CURRENT_PROFILE_INDEX)
       IN  /\ ret' = [tag |-> "profile", val |-> <<profile>>]
           /\ drawn' = Append(drawn, profile)
           /\ source_default' =
                 IF CHROMIUM_PROFILES = <<>> /\ source_default[profile] = Absent
                 THEN [source_default EXCEPT ![profile] = Bare]
                 ELSE source_default
    /\ CURRENT_PROFILE_INDEX' = NextIndex(CHROMIUM_PROFILES, CURRENT_PROFILE_INDEX)
    /\ UNCHANGED << goalVars, sigVars, target_default, dir, localVars, childVars,
                    pc, final, gateProfile, gateCount, launches, allBlocked,
                    credRetry >>

NextPool == SetupProfiles \/ GetNext

SpecPool == InitPool /\ [][NextPool]_vars

\* The first attempt of a video goal and the gate after it, on every content
\* of the two Default directories of the first MaxPool profiles and with
\* every fault of the browser and of the two file operations of the sync.
GateStores(filled) ==
    { t \in [ProfileDirs -> { Absent, filled }] :
        \A i \in 1..5 : i > MaxPool => t[ProfileName(i)] = Absent }

InitGate ==
    /\ pc = "idle"
    /\ kind = "video"
    /\ platform \in Platforms
    /\ target_default \in GateStores(Store("db", { HostYouTube, HostTikTok }))
    /\ source_default \in GateStores(Store("db", { HostOther }))
    /\ CHROMIUM_PROFILES = SetupPool(<<>>, target_default)
    /\ CURRENT_PROFILE_INDEX = 0
    /\ baseline = { <<"old", "mp4">> }
    /\ dir = AsDir(baseline)
    /\ NoAttempt
    /\ NoHistory
    /\ fault \in Faults

\* The steps of the goal up to the end of its first gate.
NextGate ==
    \/ BeginDownload
    \/ attempt = 0 /\ ReadLine
    \/ attempt = 0 /\ CooldownEnds
    \/ attempt = 0 /\ StreamEnds
    \/ attempt = 0 /\ WaitReturns
    \/ attempt = 0 /\ GateConfirm

SpecGate == InitGate /\ [][NextGate]_vars

\* analyze_profile_cookies on its own: one profile, any content of its two
\* Cookies files, any platform.
InspectStores ==
    { Absent, Bare, Store("empty", {}), Store("corrupt", {}) }
        \cup { Store("db", hs) : hs \in SUBSET Hosts }

InitInspect ==
    /\ pc = "inspect"
    /\ kind = "video"
    /\ platform \in Platforms
    /\ \E tool \in InspectStores, interactive \in InspectStores :
          /\ target_default =
                [p \in ProfileDirs |-> IF p = ProfileName(1) THEN tool ELSE Absent]
          /\ source_default =
                [p \in ProfileDirs |-> IF p = ProfileName(1) THEN interactive
                                       ELSE Absent]
    /\ CHROMIUM_PROFILES = SetupPool(<<>>, target_default)
    /\ CURRENT_PROFILE_INDEX = 0
    /\ dir = {}
    /\ baseline = {}
    /\ NoAttempt
    /\ NoHistory
    /\ fault = "none"

\* analyze_profile_cookies(profile)[platform]['has_cookies'] for the profile
\* of the pool, as verify_platform_cookies reads it.
Inspect ==
    /\ pc = "inspect"
    /\ LET profile == CHROMIUM_PROFILES[1]
       IN  ret' = [tag |-> "bool",
                   val |-> << AnalyzeProfileCookies(target_default[profile],
                                                    source_default[profile],
                                                    platform) >>]
    /\ pc' = "done"
    /\ UNCHANGED << goalVars, sigVars, storeVars, CURRENT_PROFILE_INDEX, dir,
                    localVars, childVars, final, gateProfile, ghostVars >>

NextInspect == Inspect

SpecInspect == InitInspect /\ [][NextInspect]_vars

\* The streaming loop's reaction to one line, for every line of up to
\* MaxTokens words over the words of the rate-limit phrase, the error marker
\* and a block phrase in two casings, and for the lines of the child above.
ClassifyTokens ==
    { "ERROR:", "error:", "Rate-Limited", "by", "YouTube", "youtube", "Captcha" }

ClassifyLines ==
    Lines \cup UNION { [1..n -> ClassifyTokens] : n \in 1..MaxTokens }

InitClassify ==
    Init /\ kind = "video" /\ platform = "YouTube" /\ baseline = { <<"old", "mp4">> }

\* The first line an attempt reads.
ClassifyLine == output_lines = <<>> /\ ReadLineFrom(ClassifyLines)

NextClassify == BeginDownload \/ ClassifyLine \/ CooldownEnds

SpecClassify == InitClassify /\ [][NextClassify]_vars

\* ================================================================ claims

\* C1: in every attempt of every goal kind, a captured line classified
\* HardBlocked is the last line captured in that attempt: the supervisor is
\* never back at a read of the child's stream with such a line captured, and
\* once the checks of that line are over the termination request has been
\* issued to the child and the hard-block flag is set.
C1_TerminateBeforeNextRead ==
    \A i \in 1..Len(output_lines) :
        IsHardBlocked(output_lines[i]) =>
            /\ i = Len(output_lines)
            /\ pc # "stream"
            /\ pc # "cooling" => (termRequested /\ killed_by_block)

\* A subtitle attempt stopped at its first line, the child still running.
C1_Witness ==
    /\ pc = "wait"
    /\ kind = "subtitles"
    /\ Len(output_lines) = 1
    /\ IsHardBlocked(output_lines[1])
    /\ termRequested
    /\ killed_by_block
    /\ proc = "running"

\* C2: for every goal kind, the evaluation of an attempt whose hard-block
\* flag is set never ends the goal in Succeeded, whatever the exit status and
\* whatever files the child wrote: it opens the gate, goes on to the next
\* attempt, or ends the goal in Failed with the empty value.
C2_BlockOverridesExit ==
    [][ (pc = "wait" /\ killed_by_block /\ pc' # "exited") =>
          /\ final' # "Succeeded"
          /\ \/ pc' = "gate" /\ gateCount' = gateCount + 1
             \/ pc' = "stream" /\ attempt' = attempt + 1
             \/ pc' = "done" /\ final' = "Failed" /\ ret' = EmptyResult(kind)
      ]_vars

\* A blocked video attempt whose child exited 0 and left a new video file,
\* sent to the gate.
C2_Witness ==
    /\ pc = "gate"
    /\ kind = "video"
    /\ killed_by_block
    /\ returncode = 0
    /\ NewMatching(dir, existing_files, VideoExts) # {}

\* C3 as stated: a goal all of whose attempts were hard-blocked ends in
\* Failed with exactly 10 gate invocations.
C3_TenGates ==
    (pc = "done" /\ allBlocked /\ launches > 0) =>
        (final = "Failed" /\ gateCount = max_retries)

\* C3: a goal all of whose attempts were hard-blocked ran all 11 attempts and
\* ends in Failed; the gate was invoked 10 times, except that on YouTube,
\* when the output of attempt 0 holds a privacy/login phrase (as "sign in to
\* confirm" does), attempt 0 is followed by the credential retry instead of
\* the gate and the gate was invoked 9 times.
C3_GatePerIntervention ==
    /\ [] ( (pc = "done" /\ allBlocked /\ launches > 0) =>
              /\ final = "Failed"
              /\ launches = max_retries + 1
              /\ gateCount = IF credRetry THEN max_retries - 1 ELSE max_retries )
    /\ [][ (pc = "wait" /\ killed_by_block /\ attempt = 0 /\ pc' # "exited") =>
              (credRetry' <=>
                  (platform = "YouTube" /\ PrivacyText(Lower(Join(output_lines)))))
         ]_vars

\* A TikTok goal blocked in all 11 attempts, after 10 gate invocations.
C3_Witness ==
    /\ pc = "done"
    /\ platform = "TikTok"
    /\ allBlocked
    /\ launches = max_retries + 1
    /\ final = "Failed"
    /\ gateCount = max_retries

\* C4: on YouTube, when an attempt whose captured output holds "sign in to
\* confirm" does not succeed, attempt 0 is followed by attempt 1 launched
\* with a pool profile and without a gate invocation, and every attempt
\* 1..9 is followed by a gate invocation.
C4_CredentialRetryAtAttemptZeroOnly ==
    [][ ( /\ pc = "wait"
          /\ platform = "YouTube"
          /\ Contains(Lower(Join(output_lines)), <<"sign", "in", "to", "confirm">>)
          /\ pc' # "exited"
          /\ ~(pc' = "done" /\ final' = "Succeeded") ) =>
          IF attempt = 0
          THEN /\ pc' = "stream"
               /\ attempt' = 1
               /\ command'.cookies # "none"
               /\ launches' = launches + 1
               /\ gateCount' = gateCount
          ELSE attempt < max_retries =>
                  /\ pc' = "gate"
                  /\ gateCount' = gateCount + 1
                  /\ launches' = launches
      ]_vars

\* A YouTube audio goal at its first gate, opened after attempt 1 printed
\* "sign in to confirm"; attempt 0 went to the credential retry.
C4_Witness ==
    /\ pc = "gate"
    /\ kind = "audio"
    /\ platform = "YouTube"
    /\ attempt = 1
    /\ credRetry
    /\ gateCount = 1
    /\ command.cookies # "none"
    /\ Contains(Lower(Join(output_lines)), <<"sign", "in", "to", "confirm">>)

\* C5 as stated: once the interrupt handler has run, the run has exited.
C5_NoFlowAfterInterrupt == INTERRUPTED => pc = "exited"

\* C6 as stated: a run that exited on an interrupt with its child running
\* had asked that child to terminate.
C6_ChildAskedToTerminate ==
    (pc = "exited" /\ proc = "running") => termRequested

\* C7 as stated: the value returned by a goal that ended in Failed differs
\* from the value returned for an empty Success.
C7_FailedDistinctFromEmptySuccess ==
    (pc = "done" /\ final = "Failed") => ret # [tag |-> "list", val |-> <<>>]

\* C8 as stated: for every goal kind, when the child of an unblocked attempt
\* exits 0 and the directory holds no new matching file, the goal ends at
\* once, with no gate invocation and no further attempt.
C8_EmptySuccessEndsGoal ==
    [][ ( /\ pc = "wait"
          /\ ~killed_by_block
          /\ returncode' = 0
          /\ \A n \in Names(dir') \ baseline :
                ~MatchesExt(n, IF kind = "subtitles" THEN {"srt"}
                               ELSE ExtFilter(kind)) ) =>
          /\ pc' = "done"
          /\ gateCount' = gateCount
          /\ launches' = launches
      ]_vars

\* C9 as stated, for the goals that ran an attempt: every path of a Success
\* result names a file that was not in the directory when the goal started.
C9_SuccessHoldsOnlyNewFiles ==
    (pc = "done" /\ final = "Succeeded" /\ launches > 0) =>
        \A i \in 1..Len(ret.val) : ret.val[i] \notin baseline

\* The goal starts in a directory that holds the output of an earlier run of
\* the same goal.
Rerun ==
    IF kind = "subtitles"
    THEN \E n \in baseline : GlobTitle(n, TitleOk)
    ELSE Creatable(kind, TitleOk) \subseteq baseline

C11_ResolvedArtifacts ==
    pc = "done" =>
        LET r == ret.val
            wanted == { n \in Names(dir) :
                          /\ n \notin baseline
                          /\ \E e \in (IF kind = "video"
                                       THEN {"mp4", "mkv", "webm", "flv", "mov"}
                                       ELSE {"mp3"}) :
                                n[Len(n)] = e \/ LowerTok(n[Len(n)]) = e }
        IN  /\ { r[i] : i \in 1..Len(r) } = wanted
            /\ Len(r) = Cardinality(wanted)
            /\ \A i, j \in 1..Len(r) :
                  i < j => Mtime(dir, r[i]) <= Mtime(dir, r[j])

\* The example of the claim: before = {a.txt}, now = {a.txt, b.mp3, c.MP3},
\* c newer than b, filter .mp3: [b.mp3, c.MP3].
C11_Witness ==
    /\ pc = "done"
    /\ kind = "audio"
    /\ baseline = { <<"a", "txt">> }
    /\ dir = { [name |-> <<"a", "txt">>, mtime |-> 1],
               [name |-> <<"b", "mp3">>, mtime |-> 1],
               [name |-> <<"c", "MP3">>, mtime |-> 2] }
    /\ ret = [tag |-> "list", val |-> << <<"b", "mp3">>, <<"c", "MP3">> >>]

\* The spellings of a lower-case word.
Casings(t) ==
    CASE t = "error:" -> { "error:", "ERROR:" }
      [] t = "rate-limited" -> { "rate-limited", "Rate-Limited" }
      [] t = "youtube" -> { "youtube", "YouTube" }
      [] t = "captcha" -> { "captcha", "Captcha" }
      [] t = "sign" -> { "sign", "Sign" }
      [] t = "private" -> { "private", "Private" }
      [] t = "forbidden" -> { "forbidden", "Forbidden" }
      [] OTHER -> { t }

\* The line holds the phrase, each word in any of its spellings.
HoldsPhrase(line, phrase) ==
    \E i \in 1..(Len(line) - Len(phrase) + 1) :
        \A j \in 1..Len(phrase) : line[i + j - 1] \in Casings(phrase[j])

RateLimitedLine(line) == HoldsPhrase(line, <<"rate-limited", "by", "youtube">>)

HardBlockedLine(line) ==
    /\ HoldsPhrase(line, <<"error:">>)
    /\ \E ph \in { <<"sign", "in", "to", "confirm">>, <<"not", "a", "bot">>,
                   <<"captcha">>, <<"verify", "you", "are", "human">>,
                   <<"403", "forbidden">> } : HoldsPhrase(line, ph)

\* C12: the step that reads a line enters the cooldown exactly if the line
\* holds the rate-limit phrase in any casing; once the iteration on the line
\* is over, the child was asked to terminate and the block flag is set
\* exactly if the line holds the error marker and a block phrase in any
\* casing; a line with neither brings neither cooldown nor termination and
\* the loop goes on reading.
C12_LineClassification ==
    [][ LET line == output_lines'[Len(output_lines')]
        IN  /\ output_lines' # output_lines /\ output_lines' # <<>> =>
                  (pc' = "cooling" <=> RateLimitedLine(line))
            /\ output_lines' # <<>> /\ pc' # "cooling" =>
                  /\ termRequested' <=> HardBlockedLine(line)
                  /\ killed_by_block' <=> HardBlockedLine(line)
                  /\ pc' = (IF HardBlockedLine(line) THEN "wait" ELSE "stream")
      ]_vars

\* A rate-limit line in mixed casing was read and the cooldown entered.
C12_Witness ==
    /\ pc = "cooling"
    /\ output_lines = << <<"Rate-Limited", "by", "YouTube">> >>

\* C13: on the pool as set up, of k >= 1 profiles, the i-th call of
\* get_next_chromium_profile since the setup returned profile
\* ((i - 1) mod k) + 1 of the pool and the cursor is the number of calls
\* mod k; so from any cursor c the next n calls return the profiles
\* (c + 0) mod k, ..., (c + n - 1) mod k.
C13_RoundRobin ==
    pc = "idle" =>
        LET k == Len(CHROMIUM_PROFILES)
        IN  /\ k >= 1
            /\ \A i \in 1..Len(drawn) :
                  drawn[i] = CHROMIUM_PROFILES[((i - 1) % k) + 1]
            /\ CURRENT_PROFILE_INDEX = Len(drawn) % k

\* A pool of three, four calls from cursor 0: I0, I1, I2, I0.
C13_Witness ==
    /\ pc = "idle"
    /\ CHROMIUM_PROFILES = <<ProfileName(1), ProfileName(2), ProfileName(3)>>
    /\ drawn = <<ProfileName(1), ProfileName(2), ProfileName(3), ProfileName(1)>>
    /\ CURRENT_PROFILE_INDEX = 1

C14_CredentialPolicy ==
    pc \in {"stream", "cooling", "wait"} =>
        LET pool == { CHROMIUM_PROFILES[i] : i \in 1..Len(CHROMIUM_PROFILES) }
            withProfile == /\ command.cookies \in pool
                           /\ drawn # <<>>
                           /\ command.cookies = drawn[Len(drawn)]
        IN  /\ attempt \in 0..10
            /\ platform = "TikTok" => withProfile
            /\ platform = "YouTube" /\ attempt = 0 => command.cookies = "none"
            /\ platform = "YouTube" /\ attempt > 0 => withProfile

\* The last attempt of a YouTube goal reads its child's output.
C14_Witness ==
    /\ pc = "stream"
    /\ platform = "YouTube"
    /\ attempt = 10
    /\ command.cookies # "none"

\* C15: when the operator confirms at the gate and neither file operation of
\* the synchronization fails, the step leaves <profile>/Default of every
\* profile as it was; <profile>/chromium/Default of the gate's profile is
\* afterwards the content of its <profile>/Default when that exists, and is
\* left as it was when <profile>/Default does not exist; the other profiles'
\* directories are untouched.
C15_SyncCopiesAndKeeps ==
    [][ pc = "gate" /\ pc' # "gate" /\ pc' # "exited"
        /\ fault \in {"none", "browser"} =>
            /\ source_default' = source_default
            /\ source_default[gateProfile].state # "absent" =>
                  target_default'[gateProfile] = source_default[gateProfile]
            /\ source_default[gateProfile].state = "absent" =>
                  target_default'[gateProfile] = target_default[gateProfile]
            /\ \A p \in ProfileDirs \ {gateProfile} :
                  target_default'[p] = target_default[p]
      ]_vars

\* The platform's domain as the cookie query spells it.
DomainOf(plat) == IF plat = "YouTube" THEN "youtube.com" ELSE "tiktok.com"

\* The host is the platform's domain or a subdomain of it.
ScopedTo(h, plat) ==
    /\ h[Len(h)] = DomainOf(plat)
    /\ Len(h) = 1 \/ h[Len(h) - 1] = "."

\* C17 as stated: the inspection of a profile whose Cookies file under
\* chromium/Default is missing, corrupt or of zero size answers false, and
\* it answers true only if that file holds a cookie whose host is the
\* platform's domain or a subdomain of it.
C17_FalseOnBadStore ==
    pc = "done" =>
        LET tool == target_default[CHROMIUM_PROFILES[1]]
        IN  /\ tool.state \in {"absent", "bare", "empty", "corrupt"} =>
                  ret.val = <<FALSE>>
            /\ ret.val = <<TRUE>> =>
                  /\ tool.state = "db"
                  /\ \E h \in tool.hosts : ScopedTo(h, platform)

\* C17, amended: the file consulted is chromium/Default/Cookies unless it is
\* missing or of zero size, and Default/Cookies then; the inspection answers
\* true exactly if the platform is YouTube or TikTok and the file consulted
\* is a readable store with a cookie whose host contains the platform's
\* domain, false for a missing, zero-size or corrupt file consulted; the
\* step leaves both directories of every profile as they were.
C17_ConsultedStore ==
    [][ pc = "inspect" /\ pc' = "done" =>
            LET profile == CHROMIUM_PROFILES[1]
                tool == target_default[profile]
                consulted == IF tool.state \in {"absent", "bare", "empty"}
                             THEN source_default[profile] ELSE tool
                expected ==
                    /\ platform \in {"YouTube", "TikTok"}
                    /\ consulted.state = "db"
                    /\ \E h \in consulted.hosts :
                          \E i \in 1..Len(h) : h[i] = DomainOf(platform)
            IN  /\ ret' = [tag |-> "bool", val |-> <<expected>>]
                /\ source_default' = source_default
                /\ target_default' = target_default
      ]_vars

\* chromium/Default holds no Cookies file and the inspection answered true
\* from Default/Cookies.
C17_Witness ==
    /\ pc = "done"
    /\ target_default[CHROMIUM_PROFILES[1]].state = "bare"
    /\ platform = "TikTok"
    /\ ret = [tag |-> "bool", val |-> <<TRUE>>]

\* C18: a goal is past an attempt (it waits at the gate, launches the next
\* attempt, or has returned its result) only when the child of that attempt
\* has exited: at the gate and after the return of a goal that launched a
\* child no child is running, and a further child is launched only by the
\* step in which proc.wait() returns or by the step that leaves the gate.
C18_NoDecisionBeforeExit ==
    [][ /\ pc' \in {"gate", "done"} /\ launches' > 0 => proc' = "exited"
        /\ launches' = launches + 1 /\ launches > 0 =>
              \/ pc = "wait"
              \/ pc = "gate" /\ proc = "exited"
      ]_vars

\* C19: while the supervisor waits at the gate no child of the goal is alive
\* and none is launched; <profile>/chromium/Default of any profile is
\* written only by the step that leaves the gate, taken when the child has
\* exited, and the next attempt is launched by that step, after the
\* synchronization.
C19_GateExcludesAttempt ==
    [][ /\ pc' = "gate" => proc' = "exited"
        /\ target_default' # target_default => pc = "gate" /\ proc = "exited"
        /\ pc = "gate" /\ pc' = "gate" => launches' = launches /\ proc' = proc
        /\ pc = "gate" /\ launches' # launches => pc' = "stream"
      ]_vars

\* A gate has synchronized cookies the browser session added and the next
\* attempt runs.
C19_Witness ==
    /\ pc = "stream"
    /\ gateCount > 0
    /\ target_default # ProfileStores(CHROMIUM_PROFILES)
    /\ target_default[gateProfile] = source_default[gateProfile]

C21_OneLineOneSignal ==
    [][ pc = "cooling" /\ pc' \in {"stream", "wait"} =>
            /\ ~termRequested'
            /\ ~killed_by_block'
            /\ pc' = "stream"
            /\ ~HardBlockedLine(output_lines[Len(output_lines)])
      ]_vars

\* C22: the gate is entered only from the evaluation of an attempt with an
\* index below 10 and never stands open at index 10; the step in which the
\* operator confirms launches exactly one child, the attempt with the next
\* index of the same goal; the evaluation of the attempt with index 10 opens
\* no gate and ends the goal, in Failed when the attempt was terminated as
\* blocked.
C22_GateOnlyWhenAttemptsRemain ==
    [][ /\ pc' = "gate" => attempt' < 10
        /\ pc # "gate" /\ pc' = "gate" =>
              /\ pc = "wait"
              /\ attempt' = attempt
              /\ gateCount' = gateCount + 1
        /\ pc = "gate" /\ pc' \notin {"gate", "exited"} =>
              /\ pc' = "stream"
              /\ attempt' = attempt + 1
              /\ launches' = launches + 1
              /\ gateCount' = gateCount
              /\ kind' = kind /\ platform' = platform
        /\ pc = "wait" /\ attempt = 10 /\ pc' # "exited" =>
              /\ pc' = "done"
              /\ gateCount' = gateCount
              /\ launches' = launches
              /\ killed_by_block => final' = "Failed"
      ]_vars

\* The attempt with index 10 was terminated as blocked and the goal has
\* failed after nine or ten gates.
C22_Witness ==
    /\ pc = "done"
    /\ final = "Failed"
    /\ launches = 11
    /\ allBlocked
    /\ gateCount \in {9, 10}
    /\ returncode # 0

\* The captured output of the attempt holds one of the phrases, in any
\* spelling.
CapturedHolds(phrases) ==
    \E i \in 1..Len(output_lines) :
        \E ph \in phrases : HoldsPhrase(output_lines[i], ph)

CapturedBlock ==
    CapturedHolds({ <<"sign", "in", "to", "confirm">>, <<"not", "a", "bot">>,
                    <<"captcha">>, <<"verify", "you", "are", "human">>,
                    <<"403", "forbidden">> })

CapturedPrivacy ==
    CapturedHolds({ <<"sign", "in">>, <<"private">>, <<"age-restricted">>,
                    <<"login">>, <<"members-only">> })

\* C23: when proc.wait() returns for an attempt that failed (exit status not
\* 0, or terminated as blocked) whose captured output holds no hard-block
\* phrase, and the attempt is not index 0 of a YouTube goal with a
\* privacy/login phrase, the goal ends in Failed in that step, with no gate
\* and no further child, whatever the index.
C23_FatalFailureAborts ==
    [][ /\ pc = "wait" /\ pc' # "exited"
        /\ returncode' # 0 \/ killed_by_block
        /\ ~CapturedBlock
        /\ ~(attempt = 0 /\ platform = "YouTube" /\ CapturedPrivacy)
        => /\ pc' = "done"
           /\ final' = "Failed"
           /\ gateCount' = gateCount
           /\ launches' = launches
           /\ CURRENT_PROFILE_INDEX' = CURRENT_PROFILE_INDEX
      ]_vars

\* The privacy phrase at an index above 0: a YouTube goal whose attempt 0
\* took the credential retry has failed at attempt 1, with no gate.
C23_Witness ==
    /\ pc = "done"
    /\ final = "Failed"
    /\ platform = "YouTube"
    /\ credRetry
    /\ launches = 2
    /\ gateCount = 0
    /\ returncode = 1

C25_GoalTerminates ==
    <>( /\ pc = "done"
        /\ final \in {"Succeeded", "Failed"}
        /\ launches = 11 /\ final # "Succeeded" =>
              final = "Failed" /\ ret = EmptyResult(kind) )

\* An audio goal has used up its 11 attempts without success and is Failed.
C25_Witness ==
    /\ pc = "done"
    /\ kind = "audio"
    /\ launches = 11
    /\ final = "Failed"
    /\ nsig = 0

\* C26: when rmtree or copytree of the synchronization raises, the step in
\* which the operator confirms still leaves the gate into the next attempt:
\* the goal is not decided, exactly one child is launched with the next
\* index and with the credentials the policy gives that index, and
\* <profile>/Default is left as it was.
C26_SyncFailureNotFatal ==
    [][ pc = "gate" /\ pc' # "gate" /\ fault \in {"rmtree", "copytree"} =>
            /\ pc' = "stream"
            /\ final' = "none"
            /\ ret' = ret
            /\ attempt' = attempt + 1
            /\ launches' = launches + 1
            /\ proc' = "running"
            /\ source_default' = source_default
            /\ command'.cookies =
                  (IF platform \in {"YouTube", "TikTok"}
                   THEN CHROMIUM_PROFILES[CURRENT_PROFILE_INDEX + 1]
                   ELSE "none")
      ]_vars

\* copytree failed at the first gate: the copy is not there and attempt 1
\* runs.
C26_Witness ==
    /\ pc = "stream"
    /\ attempt = 1
    /\ gateCount = 1
    /\ fault = "copytree"
    /\ source_default[gateProfile].state = "db"
    /\ target_default[gateProfile].state # "db"
    /\ final = "none"

\* C27: the step that opens the gate takes the gate's profile with a call of
\* get_next_chromium_profile of its own; on a pool of two or more profiles
\* the attempt with cookies launched by the confirming step runs with the
\* pool successor of the gate's profile, not with the gate's profile, and
\* gate and attempt together are two consecutive calls: the cursor moves by
\* one in each of the two steps.
C27_AttemptUsesSuccessor ==
    [][ LET k == Len(CHROMIUM_PROFILES)
            step(c) == (c + 1) % k
        IN  /\ pc = "wait" /\ pc' = "gate" =>
                  /\ gateProfile' = CHROMIUM_PROFILES[CURRENT_PROFILE_INDEX + 1]
                  /\ drawn' = Append(drawn, gateProfile')
                  /\ CURRENT_PROFILE_INDEX' = step(CURRENT_PROFILE_INDEX)
            /\ pc = "gate" /\ pc' = "stream" /\ platform \in {"YouTube", "TikTok"}
               /\ k >= 2 =>
                  LET i == CHOOSE j \in 1..k : CHROMIUM_PROFILES[j] = gateProfile
                  IN  /\ command'.cookies = CHROMIUM_PROFILES[(i % k) + 1]
                      /\ command'.cookies # gateProfile
                      /\ drawn[Len(drawn)] = gateProfile
                      /\ drawn' = Append(drawn, command'.cookies)
                      /\ CURRENT_PROFILE_INDEX' = step(CURRENT_PROFILE_INDEX)
      ]_vars

\* The operator's session was bound to chromium_data_2 and the attempt that
\* follows runs with chromium_data_1.
C27_Witness ==
    /\ pc = "stream"
    /\ platform = "TikTok"
    /\ gateCount = 1
    /\ attempt = 1
    /\ gateProfile = "chromium_data_2"
    /\ command.cookies = "chromium_data_1"
    /\ drawn = <<"chromium_data_1", "chromium_data_2", "chromium_data_1">>

\* C28: when proc.wait() returns for an attempt with an index below 10 that
\* was terminated as blocked, the goal is not ended: the step opens the
\* gate, from which the confirming step launches the next attempt, or, at
\* index 0 of a YouTube goal whose output holds a privacy/login phrase,
\* launches attempt 1 directly.
C28_BlockedAttemptIsRetried ==
    [][ /\ pc = "wait" /\ killed_by_block /\ attempt < 10 /\ pc' # "exited" =>
              /\ final' = "none"
              /\ \/ pc' = "gate" /\ attempt' = attempt
                 \/ /\ pc' = "stream" /\ attempt' = 1
                    /\ attempt = 0 /\ platform = "YouTube" /\ CapturedPrivacy
        /\ pc = "gate" /\ killed_by_block /\ pc' \notin {"gate", "exited"} =>
              pc' = "stream" /\ attempt' = attempt + 1 /\ final' = "none"
      ]_vars

\* Attempt 9 was terminated on its captcha line and the gate stands open.
C28_Witness ==
    /\ pc = "gate"
    /\ attempt = 9
    /\ killed_by_block
    /\ termRequested
    /\ output_lines = << LineCaptcha >>

\* C29: the pool cursor moves only through get_next_chromium_profile: a step
\* of a run advances it by one position (wrapping at the end of the pool) for
\* the launch of an attempt whose command carries cookies and by one for an
\* opening of the intervention gate, and records the profile it pointed at;
\* every other step (the launch of an anonymous attempt, a line read, a
\* cooldown, the end of the stream, the evaluation of an attempt, the
\* resolution of the artifacts, the return of a goal and the start of the
\* next one) leaves it where it was.
C29_CursorFrame ==
    [][ LET cred == launches' = launches + 1 /\ command'.cookies # "none"
            gate == gateCount' = gateCount + 1
            n == (IF cred THEN 1 ELSE 0) + (IF gate THEN 1 ELSE 0)
        IN  /\ CURRENT_PROFILE_INDEX' =
                  (CURRENT_PROFILE_INDEX + n) % Len(CHROMIUM_PROFILES)
            /\ Len(drawn') = Len(drawn) + n
            /\ n > 0 => drawn' =
                  Append(drawn, CHROMIUM_PROFILES[CURRENT_PROFILE_INDEX + 1])
      ]_vars

\* The anonymous first attempt of a later goal of the run is reading its
\* child's output, and the cursor is where three earlier draws left it.
C29_Witness ==
    /\ pc = "stream"
    /\ attempt = 0
    /\ launches = 1
    /\ command.cookies = "none"
    /\ Len(drawn) = 3
    /\ CURRENT_PROFILE_INDEX = 1

\* C30: what an attempt captured is its own.  Every step that starts a child
\* downloader starts it with output_lines empty and killed_by_block False;
\* output_lines grows only by the line just read from the running child and
\* is emptied only by a launch or when the function is left; killed_by_block
\* is set only with terminate() requested on the current child.  The step
\* in which proc.wait() returns decides from the attempt's captured lines,
\* its flag, its exit status and its index (and the goal's platform; for
\* subtitles a zero exit counts only with a subtitle file in the directory):
\* success on a zero exit of an unterminated child, else the credential
\* retry at index 0 of YouTube on a privacy/login phrase, else the gate on a
\* hard-block phrase below index 10, else Failed.
C30_AttemptIsolation ==
    [][ LET success == pc' = "done" /\ final' = "Succeeded"
            credential == /\ pc' = "stream" /\ attempt' = attempt + 1
                          /\ launches' = launches + 1 /\ gateCount' = gateCount
            intervention == /\ pc' = "gate" /\ attempt' = attempt
                            /\ launches' = launches /\ gateCount' = gateCount + 1
            fatal == pc' = "done" /\ final' = "Failed"
            have == kind = "subtitles" => SubtitleFiles(dir', video_title) # {}
            Decided(rc) ==
                IF rc = 0 /\ ~killed_by_block /\ have
                THEN success /\ ~credential /\ ~intervention /\ ~fatal
                ELSE IF attempt = 0 /\ platform = "YouTube" /\ CapturedPrivacy
                THEN credential /\ ~success /\ ~intervention /\ ~fatal
                ELSE IF CapturedBlock /\ attempt < 10
                THEN intervention /\ ~success /\ ~credential /\ ~fatal
                ELSE fatal /\ ~success /\ ~credential /\ ~intervention
        IN  /\ launches' = launches + 1 =>
                  output_lines' = <<>> /\ killed_by_block' = FALSE
            /\ output_lines' # output_lines =>
                  \/ /\ pc = "stream"
                     /\ \E line \in Lines : output_lines' = Append(output_lines, line)
                  \/ /\ output_lines' = <<>>
                     /\ launches' = launches + 1 \/ pc' \in {"done", "exited"}
            /\ killed_by_block' =>
                  /\ termRequested'
                  /\ output_lines' # <<>>
                  /\ HardBlockedLine(output_lines'[Len(output_lines')])
            /\ pc = "wait" /\ pc' # "exited" =>
                  \E rc \in ReturnCodes :
                      /\ returncode' # RcNone => returncode' = rc
                      /\ Decided(rc)
      ]_vars

\* Attempt 0 failed on a hard-block phrase and the gate was opened once;
\* attempt 1 exited with status 0, unterminated, and the goal has succeeded.
C30_Witness ==
    /\ pc = "done"
    /\ final = "Succeeded"
    /\ launches = 2
    /\ gateCount = 1
    /\ ~credRetry
    /\ allBlocked = FALSE
    /\ returncode = 0

\* C31: in a goal whose URL belongs to neither YouTube nor TikTok, every
\* step that starts a child downloader (index 0..10, the first attempt, a
\* retry, the attempt that follows a confirmed gate) starts it without
\* --cookies-from-browser and with no player_client argument, draws no
\* profile and leaves the pool cursor where it was; while the child is
\* alive or being reaped its command carries no profile.  The cursor of such
\* a goal moves only when a gate is opened.
C31_UnknownPlatformAnonymous ==
    [][ platform = "Desconocida" =>
          /\ launches' = launches + 1 =>
                /\ attempt' \in 0..10
                /\ command' = [cookies |-> "none", player_client |-> "default"]
                /\ CURRENT_PROFILE_INDEX' = CURRENT_PROFILE_INDEX
                /\ drawn' = drawn
          /\ pc' \in {"stream", "cooling", "wait"} => command'.cookies = "none"
          /\ CURRENT_PROFILE_INDEX' # CURRENT_PROFILE_INDEX /\ pc' # "exited" =>
                pc' = "gate" /\ gateCount' = gateCount + 1
      ]_vars

\* The last attempt of a goal of an unknown platform reads its child's
\* output, after ten gate rounds, without cookies.
C31_Witness ==
    /\ pc = "stream"
    /\ platform = "Desconocida"
    /\ attempt = 10
    /\ gateCount = 10
    /\ Len(drawn) = 10
    /\ command.cookies = "none"
    /\ gateProfile # "none"

====
